---- MODULE Spec2Model ----
(***************************************************************************)
(* ts-frame: the DataFrame container and its CSV codec (toCSV / fromCSV).  *)
(*                                                                         *)
(* A JavaScript string is a sequence of one-character strings; a cell      *)
(* value is a record [t, n, s] (typeof tag, number payload, string         *)
(* payload); a row object is the sequence of its <<key, value>> pairs in   *)
(* insertion order.                                                        *)
(***************************************************************************)
EXTENDS Integers, Sequences, FiniteSets, TLC

VARIABLES
    df,          \* the table handed to toCSV
    wopts,       \* CSVExportOptions after defaulting
    csv,         \* the CSV text: toCSV's result, fromCSV's argument
    ropts,       \* CSVImportOptions after defaulting
    i,           \* parseCSVRows: scan index (0-based, as in the code)
    rows,        \* parseCSVRows: rows finished so far
    currentRow,  \* parseCSVRows: fields of the row in progress
    current,     \* parseCSVRows: text of the field in progress
    inQuotes,    \* parseCSVRows: inside a quoted region
    out,         \* the table fromCSV returned
    ret,         \* the last call on a table: method, receiver, arguments, outcome
    pc           \* position: "table", "text", "scan", "done", "new", "frame",
                 \* "called", "halt"

vars == <<df, wopts, csv, ropts, i, rows, currentRow, current, inQuotes, out, ret, pc>>

-----------------------------------------------------------------------------
(* Characters and strings                                                  *)

QUOTE == "\""
LF == "\n"
CR == "\r"
COMMA == ","

Digits == {"0", "1", "2", "3", "4", "5", "6", "7", "8", "9"}

\* The characters String.prototype.trim removes (those the inputs can hold).
WhiteSpace == {" ", "\t", LF, CR}

DigitVal(c) ==
    CASE c = "0" -> 0 [] c = "1" -> 1 [] c = "2" -> 2 [] c = "3" -> 3
      [] c = "4" -> 4 [] c = "5" -> 5 [] c = "6" -> 6 [] c = "7" -> 7
      [] c = "8" -> 8 [] c = "9" -> 9

DigitChar(d) ==
    CASE d = 0 -> "0" [] d = 1 -> "1" [] d = 2 -> "2" [] d = 3 -> "3"
      [] d = 4 -> "4" [] d = 5 -> "5" [] d = 6 -> "6" [] d = 7 -> "7"
      [] d = 8 -> "8" [] d = 9 -> "9"

\* s.includes(c) for a one-character c
Includes(s, c) == \E k \in 1..Len(s) : s[k] = c

RECURSIVE TrimStart(_)
TrimStart(s) ==
    IF s # <<>> /\ Head(s) \in WhiteSpace THEN TrimStart(Tail(s)) ELSE s

RECURSIVE TrimEnd(_)
TrimEnd(s) ==
    IF s # <<>> /\ s[Len(s)] \in WhiteSpace
    THEN TrimEnd(SubSeq(s, 1, Len(s) - 1))
    ELSE s

\* String.prototype.trim
Trim(s) == TrimEnd(TrimStart(s))

\* Array.prototype.join with a separator string
RECURSIVE Join(_, _)
Join(parts, sep) ==
    IF parts = <<>> THEN <<>>
    ELSE IF Len(parts) = 1 THEN parts[1]
    ELSE parts[1] \o sep \o Join(Tail(parts), sep)

\* the replacement left out: quotes are not doubled
DoubleQuotes_Single(s) == s

\* strValue.replace(/"/g, '""')
RECURSIVE DoubleQuotes(_)
DoubleQuotes(s) ==
    IF s = <<>> THEN <<>>
    ELSE (IF Head(s) = QUOTE THEN <<QUOTE, QUOTE>> ELSE <<Head(s)>>)
         \o DoubleQuotes(Tail(s))

-----------------------------------------------------------------------------
(* Numbers: a finite double is the decimal m * 10^e with m an integer not  *)
(* divisible by 10 (0 is m = 0, e = 0); this is exact for the numerals of  *)
(* up to 15 significant digits the model handles.                          *)

NumFin(m, e) == <<"fin", m, e>>
NumNaN == <<"nan", 0, 0>>
NumInf == <<"inf", 0, 0>>
NumNegInf == <<"-inf", 0, 0>>
NoNum == <<"none", 0, 0>>

Abs(x) == IF x < 0 THEN -x ELSE x

\* decimal digits of a natural number, most significant first
RECURSIVE DigitsOf(_)
DigitsOf(n) ==
    IF n < 10 THEN <<DigitChar(n)>>
    ELSE Append(DigitsOf(n \div 10), DigitChar(n % 10))

\* value of a digit string
RECURSIVE NatOf(_)
NatOf(ds) ==
    IF ds = <<>> THEN 0
    ELSE NatOf(SubSeq(ds, 1, Len(ds) - 1)) * 10 + DigitVal(ds[Len(ds)])

\* strip the trailing zeros of the mantissa into the exponent
RECURSIVE Normalize(_, _)
Normalize(m, e) ==
    IF m = 0 THEN <<0, 0>>
    ELSE IF m % 10 = 0 THEN Normalize(m \div 10, e + 1)
    ELSE <<m, e>>

RECURSIVE Zeros(_)
Zeros(n) == IF n <= 0 THEN <<>> ELSE <<"0">> \o Zeros(n - 1)

RECURSIVE Pow10(_)
Pow10(n) == IF n <= 0 THEN 1 ELSE 10 * Pow10(n - 1)

\* position of the leading digit: |m * 10^e| = d.ddd * 10^SciExp(m, e)
SciExp(m, e) == Len(DigitsOf(Abs(m))) + e - 1

\* the first four significant digits of m, as a number in 1000..9999
LeadOf(a, nd) ==
    IF nd <= 4 THEN a * Pow10(4 - nd) ELSE a \div Pow10(nd - 4)

Lead4(m) == LeadOf(Abs(m), Len(DigitsOf(Abs(m))))

\* rounding of the decimal m * 10^e to a double: beyond 1.797...e308 it is
\* an infinity, below 2.47...e-324 it is zero (-0 and 0 are one value here)
RoundDouble(m, e, x, lead) ==
    IF m = 0 THEN NumFin(0, 0)
    ELSE IF x > 308 \/ (x = 308 /\ lead >= 1798)
         THEN (IF m < 0 THEN NumNegInf ELSE NumInf)
    ELSE IF x < -324 \/ (x = -324 /\ lead <= 2470)
         THEN NumFin(0, 0)
    ELSE NumFin(m, e)

RoundNormal(ne) == RoundDouble(ne[1], ne[2], SciExp(ne[1], ne[2]), Lead4(ne[1]))

ToDouble(m, e) == RoundNormal(Normalize(m, e))

\* Number.prototype.toString (radix 10) of a number payload
\* the digits ds of a nonzero number with the decimal point after pt digits
DecimalText(ds, k, pt) ==
    IF k <= pt /\ pt <= 21 THEN ds \o Zeros(pt - k)
    ELSE IF 0 < pt /\ pt <= 21
         THEN SubSeq(ds, 1, pt) \o <<".">> \o SubSeq(ds, pt + 1, k)
    ELSE IF -6 < pt /\ pt <= 0
         THEN <<"0", ".">> \o Zeros(-pt) \o ds
    ELSE (IF k = 1 THEN ds ELSE <<ds[1], ".">> \o SubSeq(ds, 2, k))
         \o <<"e", IF pt - 1 >= 0 THEN "+" ELSE "-">>
         \o DigitsOf(Abs(pt - 1))

DigitsText(ds, e) == DecimalText(ds, Len(ds), Len(ds) + e)

NumberToString(n) ==
    IF n[1] = "nan" THEN <<"N", "a", "N">>
    ELSE IF n[1] = "inf" THEN <<"I", "n", "f", "i", "n", "i", "t", "y">>
    ELSE IF n[1] = "-inf"
         THEN <<"-", "I", "n", "f", "i", "n", "i", "t", "y">>
    ELSE IF n[2] = 0 THEN <<"0">>
    ELSE (IF n[2] < 0 THEN <<"-">> ELSE <<>>)
         \o DigitsText(DigitsOf(Abs(n[2])), n[3])

-----------------------------------------------------------------------------
(* Cell values and row objects                                             *)

Null == [t |-> "null", n |-> NoNum, s |-> <<>>]
Undefined == [t |-> "undefined", n |-> NoNum, s |-> <<>>]
Num(n) == [t |-> "number", n |-> n, s |-> <<>>]
Str(s) == [t |-> "string", n |-> NoNum, s |-> s]

\* String(value) for a number or a string
String(value) ==
    IF value.t = "number" THEN NumberToString(value.n) ELSE value.s

\* an array index key: the canonical decimal text of an integer
IsArrayIndex(k) ==
    /\ k # <<>>
    /\ \A p \in 1..Len(k) : k[p] \in Digits
    /\ (Len(k) = 1 \/ k[1] # "0")

ObjHas(o, k) == \E p \in 1..Len(o) : o[p][1] = k

\* row[col]
ObjGet(o, k) ==
    IF ObjHas(o, k)
    THEN o[CHOOSE p \in 1..Len(o) : o[p][1] = k][2]
    ELSE Undefined

\* row[col] = v : an existing key keeps its place, a new key goes last
ObjSet(o, k, v) ==
    IF ObjHas(o, k)
    THEN [p \in 1..Len(o) |-> IF o[p][1] = k THEN <<k, v>> ELSE o[p]]
    ELSE Append(o, <<k, v>>)

\* Object.keys: array-index keys in ascending order, then the other keys
\* in insertion order
ObjectKeys(o) ==
    LET ks == [p \in 1..Len(o) |-> o[p][1]]
        idx == SelectSeq(ks, IsArrayIndex)
        oth == SelectSeq(ks, LAMBDA k : ~IsArrayIndex(k))
    IN  SortSeq(idx, LAMBDA a, b : NatOf(a) < NatOf(b)) \o oth

\* an options object is the set of its <<name, value>> pairs;
\* options?.name ?? default
Opt(options, name, default) ==
    IF \E p \in options : p[1] = name
    THEN (CHOOSE p \in options : p[1] = name)[2]
    ELSE default

-----------------------------------------------------------------------------
(* DataFrame                                                               *)

\* new DataFrame(data), for data an array of row objects
DataFrame(data) ==
    IF Len(data) = 0
    THEN [data |-> <<>>, columns |-> <<>>]
    ELSE [data |-> data, columns |-> ObjectKeys(data[1])]

getRows(d) == d.data

getColumnNames(d) == d.columns

\* the outcome of a call: a returned value or a thrown Error
Returned(v) == [status |-> "ok", value |-> v, message |-> <<>>]

Thrown(msg) == [status |-> "error", value |-> <<>>, message |-> msg]

\* an element of the array handed to the constructor: <<"object", row>> for
\* a row object, <<"value", cell>> for null, undefined, a number or a string
IsObject(x) == x[1] = "object"

\* the row objects of the elements (read through row[col], a number or a
\* string element has none of the columns)
RowsOf(data) ==
    [k \in 1..Len(data) |-> IF IsObject(data[k]) THEN data[k][2] ELSE <<>>]

\* new DataFrame(data) with its validation of the first element
constructor(data) ==
    IF Len(data) = 0 THEN Returned(DataFrame(<<>>))
    ELSE IF ~IsObject(data[1])
    THEN Thrown(<<"DataFrame data must be an array of objects">>)
    ELSE Returned([data |-> RowsOf(data), columns |-> ObjectKeys(data[1][2])])

\* columns.includes(columnName)
includes(columns, columnName) ==
    \E p \in 1..Len(columns) : columns[p] = columnName

\* the text of `Column "${String(col)}" does not exist`
ColumnMissing(col) == <<"Column \"", col, "\" does not exist">>

getColumn(d, columnName) ==
    Returned([r \in 1..Len(d.data) |-> ObjGet(d.data[r], columnName)])

\* the first name of columnNames the table does not have
FirstMissing(columns, columnNames) ==
    columnNames[CHOOSE p \in 1..Len(columnNames) :
                   /\ ~includes(columns, columnNames[p])
                   /\ \A q \in 1..(p - 1) : includes(columns, columnNames[q])]

\* selectedRow after the first k names have been assigned
RECURSIVE SelectedRow(_, _, _)
SelectedRow(row, columnNames, k) ==
    IF k = 0 THEN <<>>
    ELSE ObjSet(SelectedRow(row, columnNames, k - 1),
                columnNames[k], ObjGet(row, columnNames[k]))

selectedData(d, columnNames) ==
    [r \in 1..Len(d.data) |-> SelectedRow(d.data[r], columnNames, Len(columnNames))]

select(d, columnNames) ==
    IF Len(columnNames) = 0
    THEN Thrown(<<"At least one column must be selected">>)
    ELSE IF \E p \in 1..Len(columnNames) : ~includes(d.columns, columnNames[p])
    THEN Thrown(ColumnMissing(FirstMissing(d.columns, columnNames)))
    ELSE Returned(DataFrame(selectedData(d, columnNames)))

\* no call made yet
NoCall ==
    [op |-> "none", self |-> DataFrame(<<>>), args |-> <<>>,
     outcome |-> Returned(<<>>)]

\* the record of a call
Call(op, self, args, outcome) ==
    [op |-> op, self |-> self, args |-> args, outcome |-> outcome]

-----------------------------------------------------------------------------
(* CSV export                                                              *)

\* the quoting of escapeCSVValue, for the text of a value
EscapeText(strValue) ==
    IF \/ Includes(strValue, COMMA)
       \/ Includes(strValue, QUOTE)
       \/ Includes(strValue, LF)
       \/ Includes(strValue, CR)
    THEN <<QUOTE>> \o DoubleQuotes(strValue) \o <<QUOTE>>
    ELSE strValue

escapeCSVValue(value, isNumeric) ==
    IF isNumeric THEN String(value) ELSE EscapeText(String(value))

\* the header line of toCSV
HeaderLine(columns, delimiter) ==
    Join([c \in 1..Len(columns) |-> escapeCSVValue(Str(columns[c]), TRUE)],
         <<delimiter>>)

\* an absent cell written as the word null
CellText_NullWord(value) ==
    IF value.t = "null" \/ value.t = "undefined" THEN <<"n", "u", "l", "l">>
    ELSE escapeCSVValue(value, value.t = "number" /\ value.n # NumNaN)

\* the text of one cell of a data line
CellText(value) ==
    IF value.t = "null" \/ value.t = "undefined" THEN <<>>
    ELSE escapeCSVValue(value, value.t = "number" /\ value.n # NumNaN)

\* one data line of toCSV
DataLine(row, columns, delimiter) ==
    Join([c \in 1..Len(columns) |-> CellText(ObjGet(row, columns[c]))],
         <<delimiter>>)

toCSV(d, options) ==
    LET delimiter == Opt(options, "delimiter", COMMA)
        includeHeaders == Opt(options, "includeHeaders", TRUE)
        data == getRows(d)
        columns == getColumnNames(d)
    IN  IF Len(data) = 0
        THEN (IF Len(columns) > 0 /\ includeHeaders
              THEN HeaderLine(columns, delimiter)
              ELSE <<>>)
        ELSE Join((IF includeHeaders
                   THEN <<HeaderLine(columns, delimiter)>>
                   ELSE <<>>)
                  \o [r \in 1..Len(data) |->
                        DataLine(data[r], columns, delimiter)],
                  <<LF>>)

-----------------------------------------------------------------------------
(* Column validation and column types                                      *)

\* undefined not taken for an absent value
isNullish_NullOnly(value) == value.t = "null"

isNullish(value) == value.t = "null" \/ value.t = "undefined"

isNaNValue(value) == value.t = "number" /\ value.n = NumNaN

isNull(d, columnName) ==
    IF ~includes(getColumnNames(d), columnName)
    THEN Thrown(ColumnMissing(columnName))
    ELSE Returned([r \in 1..Len(getRows(d)) |->
                      isNullish(ObjGet(getRows(d)[r], columnName))])

\* the mask computed without the test of the column name
isNaN_Unchecked(d, columnName) ==
    Returned([r \in 1..Len(getRows(d)) |->
                 isNaNValue(ObjGet(getRows(d)[r], columnName))])

isNaN(d, columnName) ==
    IF ~includes(getColumnNames(d), columnName)
    THEN Thrown(ColumnMissing(columnName))
    ELSE Returned([r \in 1..Len(getRows(d)) |->
                      isNaNValue(ObjGet(getRows(d)[r], columnName))])

\* mask.map((val) => !val), the error of the inner call passing through
MapNot(mask) ==
    IF mask.status = "error" THEN mask
    ELSE Returned([r \in 1..Len(mask.value) |-> ~mask.value[r]])

\* mask.some((val) => val)
Some(mask) ==
    IF mask.status = "error" THEN mask
    ELSE Returned(\E r \in 1..Len(mask.value) : mask.value[r])

\* mask.filter((val) => val).length
CountTrue(mask) ==
    IF mask.status = "error" THEN mask
    ELSE Returned(Cardinality({r \in 1..Len(mask.value) : mask.value[r]}))

notNull(d, columnName) == MapNot(isNull(d, columnName))

hasNull(d, columnName) == Some(isNull(d, columnName))

hasNaN(d, columnName) == Some(isNaN(d, columnName))

countNull(d, columnName) == CountTrue(isNull(d, columnName))

countNaN(d, columnName) == CountTrue(isNaN(d, columnName))

\* the loop of isNumeric without its test for NaN
AllNumbers_NaN(data, columnName) ==
    \A r \in 1..Len(data) :
        \/ isNullish(ObjGet(data[r], columnName))
        \/ ObjGet(data[r], columnName).t = "number"

\* the loop of isNumeric: no value that is present is a non-number or NaN
AllNumbers(data, columnName) ==
    \A r \in 1..Len(data) :
        \/ isNullish(ObjGet(data[r], columnName))
        \/ (ObjGet(data[r], columnName).t = "number"
            /\ ObjGet(data[r], columnName).n # NumNaN)

\* the loop of isString
AllStrings(data, columnName) ==
    \A r \in 1..Len(data) :
        \/ isNullish(ObjGet(data[r], columnName))
        \/ ObjGet(data[r], columnName).t = "string"

isNumeric(d, columnName) ==
    IF ~includes(getColumnNames(d), columnName)
    THEN Thrown(ColumnMissing(columnName))
    ELSE IF Len(getRows(d)) = 0 THEN Returned(FALSE)
    ELSE Returned(AllNumbers(getRows(d), columnName))

isString(d, columnName) ==
    IF ~includes(getColumnNames(d), columnName)
    THEN Thrown(ColumnMissing(columnName))
    ELSE IF Len(getRows(d)) = 0 THEN Returned(FALSE)
    ELSE Returned(AllStrings(getRows(d), columnName))

\* the type named from hasNumber and hasString
TypeName(hasNumber, hasString) ==
    IF hasNumber /\ ~hasString THEN "number"
    ELSE IF hasString /\ ~hasNumber THEN "string"
    ELSE "mixed"

\* the type asked without the test of the column name
getColumnType_Unchecked(d, columnName) ==
    IF Len(getRows(d)) = 0 THEN Returned("empty")
    ELSE Returned(TypeName(AllNumbers(getRows(d), columnName),
                           AllStrings(getRows(d), columnName)))

getColumnType(d, columnName) ==
    IF ~includes(getColumnNames(d), columnName)
    THEN Thrown(ColumnMissing(columnName))
    ELSE IF Len(getRows(d)) = 0 THEN Returned("empty")
    ELSE Returned(TypeName(isNumeric(d, columnName).value,
                           isString(d, columnName).value))

-----------------------------------------------------------------------------
(* CSV import: the tokenizer                                               *)

\* the locals of parseCSVRows before the loop
ScanStart ==
    [i |-> 0, rows |-> <<>>, currentRow |-> <<>>, current |-> <<>>,
     inQuotes |-> FALSE]

\* the loop body with the row separator test missing its !inQuotes
ScanStep_RowEndInQuotes(st, csvString, delimiter) ==
    LET char == csvString[st.i + 1]
        nextChar == IF st.i + 1 < Len(csvString)
                    THEN csvString[st.i + 2] ELSE "null"
    IN  IF char = QUOTE
        THEN (IF st.inQuotes /\ nextChar = QUOTE
              THEN [st EXCEPT !.current = Append(@, QUOTE), !.i = @ + 2]
              ELSE IF st.inQuotes
              THEN [st EXCEPT !.inQuotes = FALSE, !.i = @ + 1]
              ELSE [st EXCEPT !.inQuotes = TRUE, !.i = @ + 1])
        ELSE IF char = delimiter /\ ~st.inQuotes
        THEN [st EXCEPT !.currentRow = Append(@, st.current),
                        !.current = <<>>, !.i = @ + 1]
        ELSE IF char = LF \/ (char = CR /\ nextChar # LF)
        THEN [st EXCEPT !.rows = Append(@, Append(st.currentRow, st.current)),
                        !.currentRow = <<>>, !.current = <<>>, !.i = @ + 1]
        ELSE [st EXCEPT !.current = Append(@, char), !.i = @ + 1]

\* the loop body with the escaped quote followed by the loop's own step
ScanStep_SkipThree(st, csvString, delimiter) ==
    LET char == csvString[st.i + 1]
        nextChar == IF st.i + 1 < Len(csvString)
                    THEN csvString[st.i + 2] ELSE "null"
    IN  IF char = QUOTE
        THEN (IF st.inQuotes /\ nextChar = QUOTE
              THEN [st EXCEPT !.current = Append(@, QUOTE), !.i = @ + 3]
              ELSE IF st.inQuotes
              THEN [st EXCEPT !.inQuotes = FALSE, !.i = @ + 1]
              ELSE [st EXCEPT !.inQuotes = TRUE, !.i = @ + 1])
        ELSE IF char = delimiter /\ ~st.inQuotes
        THEN [st EXCEPT !.currentRow = Append(@, st.current),
                        !.current = <<>>, !.i = @ + 1]
        ELSE IF (char = LF \/ (char = CR /\ nextChar # LF)) /\ ~st.inQuotes
        THEN [st EXCEPT !.rows = Append(@, Append(st.currentRow, st.current)),
                        !.currentRow = <<>>, !.current = <<>>, !.i = @ + 1]
        ELSE [st EXCEPT !.current = Append(@, char), !.i = @ + 1]

\* one iteration of the while loop of parseCSVRows
ScanStep(st, csvString, delimiter) ==
    LET char == csvString[st.i + 1]
        nextChar == IF st.i + 1 < Len(csvString)
                    THEN csvString[st.i + 2] ELSE "null"
    IN  IF char = QUOTE
        THEN (IF st.inQuotes /\ nextChar = QUOTE
              THEN [st EXCEPT !.current = Append(@, QUOTE), !.i = @ + 2]
              ELSE IF st.inQuotes
              THEN [st EXCEPT !.inQuotes = FALSE, !.i = @ + 1]
              ELSE [st EXCEPT !.inQuotes = TRUE, !.i = @ + 1])
        ELSE IF char = delimiter /\ ~st.inQuotes
        THEN [st EXCEPT !.currentRow = Append(@, st.current),
                        !.current = <<>>, !.i = @ + 1]
        ELSE IF (char = LF \/ (char = CR /\ nextChar # LF)) /\ ~st.inQuotes
        THEN [st EXCEPT !.rows = Append(@, Append(st.currentRow, st.current)),
                        !.currentRow = <<>>, !.current = <<>>,
                        !.i = IF char = CR /\ nextChar = LF
                              THEN @ + 2 ELSE @ + 1]
        ELSE [st EXCEPT !.current = Append(@, char), !.i = @ + 1]

\* the code after the loop: the last field and row
ScanFlush(st) ==
    LET lastRow == Append(st.currentRow, st.current)
    IN  IF Len(lastRow) > 0 \/ st.current # <<>>
        THEN Append(st.rows, lastRow)
        ELSE st.rows

RECURSIVE ScanFrom(_, _, _)
ScanFrom(st, csvString, delimiter) ==
    IF st.i < Len(csvString)
    THEN ScanFrom(ScanStep(st, csvString, delimiter), csvString, delimiter)
    ELSE st

parseCSVRows(csvString, delimiter) ==
    ScanFlush(ScanFrom(ScanStart, csvString, delimiter))

-----------------------------------------------------------------------------
(* CSV import: type inference                                              *)

\* /^-?\d+(\.\d+)?(e[+-]?\d+)?$/i as a scanner. The scan state q is
\* "start", "sign", "int", "dot", "frac", "e", "esign", "exp" or "fail";
\* neg, mant, fracLen, expNeg and expVal collect the numeral's value.
NumeralStart ==
    [q |-> "start", neg |-> FALSE, mant |-> 0, fracLen |-> 0,
     expNeg |-> FALSE, expVal |-> 0]

NumeralStep(a, c) ==
    IF c \in Digits
    THEN (IF a.q \in {"start", "sign", "int"}
          THEN [a EXCEPT !.q = "int", !.mant = @ * 10 + DigitVal(c)]
          ELSE IF a.q \in {"dot", "frac"}
          THEN [a EXCEPT !.q = "frac", !.mant = @ * 10 + DigitVal(c),
                         !.fracLen = @ + 1]
          ELSE IF a.q \in {"e", "esign", "exp"}
          THEN [a EXCEPT !.q = "exp", !.expVal = @ * 10 + DigitVal(c)]
          ELSE [a EXCEPT !.q = "fail"])
    ELSE IF c = "-" /\ a.q = "start" THEN [a EXCEPT !.q = "sign", !.neg = TRUE]
    ELSE IF c = "." /\ a.q = "int" THEN [a EXCEPT !.q = "dot"]
    ELSE IF c \in {"e", "E"} /\ a.q \in {"int", "frac"} THEN [a EXCEPT !.q = "e"]
    ELSE IF c = "-" /\ a.q = "e" THEN [a EXCEPT !.q = "esign", !.expNeg = TRUE]
    ELSE IF c = "+" /\ a.q = "e" THEN [a EXCEPT !.q = "esign"]
    ELSE [a EXCEPT !.q = "fail"]

RECURSIVE NumeralScan(_, _)
NumeralScan(s, a) ==
    IF s = <<>> THEN a ELSE NumeralScan(Tail(s), NumeralStep(a, Head(s)))

\* numberPattern.test(s)
numberPattern(s) == NumeralScan(s, NumeralStart).q \in {"int", "frac", "exp"}

\* index after the run of zeros that starts at p
RECURSIVE ZerosEnd(_, _)
ZerosEnd(s, p) ==
    IF p <= Len(s) /\ s[p] = "0" THEN ZerosEnd(s, p + 1) ELSE p

ZerosThenNonzero(s, p1, z) ==
    z > p1 /\ z <= Len(s) /\ s[z] \in Digits \ {"0"}

AfterSign(s) == IF Len(s) >= 1 /\ s[1] = "-" THEN 2 ELSE 1

\* the leading-zero exclusion left out
hasLeadingZeros_Never(s) == FALSE

\* /^-?0+[1-9]/.test(s)
hasLeadingZeros(s) ==
    ZerosThenNonzero(s, AfterSign(s), ZerosEnd(s, AfterSign(s)))

\* the value of a scanned numeral
NumeralValue(a) ==
    ToDouble(IF a.neg THEN -a.mant ELSE a.mant,
             (IF a.expNeg THEN -a.expVal ELSE a.expVal) - a.fracLen)

\* Number(s) for a string that matches numberPattern
Number(s) == NumeralValue(NumeralScan(s, NumeralStart))

\* the null test made case-insensitive on the first letter
IsNullText_Mixed(trimmedValue) ==
    \/ trimmedValue = <<>>
    \/ trimmedValue = <<"n", "u", "l", "l">>
    \/ trimmedValue = <<"N", "U", "L", "L">>
    \/ trimmedValue = <<"N", "u", "l", "l">>

\* the null literals of fromCSV
IsNullText(trimmedValue) ==
    \/ trimmedValue = <<>>
    \/ trimmedValue = <<"n", "u", "l", "l">>
    \/ trimmedValue = <<"N", "U", "L", "L">>

\* the cell fromCSV stores for the raw field `value`
\* !Number.isNaN(numValue) && isFinite(numValue) ? numValue : value
FiniteOr_NotNaN(numValue, value) ==
    IF numValue # NumNaN THEN Num(numValue) ELSE Str(value)

FiniteOr(numValue, value) ==
    IF numValue # NumNaN /\ numValue[1] = "fin" THEN Num(numValue) ELSE Str(value)

InferTrimmed(value, trimmedValue) ==
    IF IsNullText(trimmedValue) THEN Null
    ELSE IF numberPattern(trimmedValue) /\ ~hasLeadingZeros(trimmedValue)
    THEN FiniteOr(Number(trimmedValue), value)
    ELSE Str(value)

InferValue(value) == InferTrimmed(value, Trim(value))

-----------------------------------------------------------------------------
(* CSV import: rows to table                                               *)

\* the fast path taken by the empty string only
IsBlankText_EmptyOnly(csvString) == csvString = <<>>

\* csvString is empty or whitespace only
IsBlankText(csvString) == csvString = <<>> \/ Trim(csvString) = <<>>

IsBlankRow(row) == \A k \in 1..Len(row) : Trim(row[k]) = <<>>

\* no raw row discarded, whatever skipEmptyLines is
filteredRows_Keep(rws, skipEmptyLines) == rws

filteredRows(rws, skipEmptyLines) ==
    IF skipEmptyLines
    THEN SelectSeq(rws, LAMBDA row : ~IsBlankRow(row))
    ELSE rws

\* column names of a non-empty list of rows
columnNames(frows, hasHeaders) ==
    IF hasHeaders THEN frows[1]
    ELSE [k \in 1..Len(frows[1]) |->
            <<"c", "o", "l", "u", "m", "n">> \o DigitsOf(k)]

dataStartIndex(hasHeaders) == IF hasHeaders THEN 1 ELSE 0

\* a short row padded with its own last field instead of ''
FieldAt_Repeated(rowValues, j) ==
    IF j <= Len(rowValues) THEN rowValues[j] ELSE rowValues[Len(rowValues)]

\* values[j] ?? '' after padding the row's fields to the header's length
FieldAt(rowValues, j) == IF j <= Len(rowValues) THEN rowValues[j] ELSE <<>>

\* a property assigned only when the object does not have the key yet
ObjSetNew(obj, key, value) ==
    IF ObjHas(obj, key) THEN obj ELSE ObjSet(obj, key, value)

\* the row object when the first field under a repeated name is kept
RECURSIVE AssembleRow_FirstWins(_, _, _)
AssembleRow_FirstWins(names, rowValues, j) ==
    IF j = 0 THEN <<>>
    ELSE ObjSetNew(AssembleRow_FirstWins(names, rowValues, j - 1),
                   names[j], InferValue(FieldAt(rowValues, j)))

\* the row object assembled from the first j columns
RECURSIVE AssembleRow(_, _, _)
AssembleRow(names, rowValues, j) ==
    IF j = 0 THEN <<>>
    ELSE ObjSet(AssembleRow(names, rowValues, j - 1),
                names[j], InferValue(FieldAt(rowValues, j)))

\* no row of nulls put under the first column
EmptyRow_Short(names, j) == IF j <= 1 THEN <<>> ELSE <<<<names[j], Null>>>>

\* the row of nulls of a headers-only text
RECURSIVE EmptyRow(_, _)
EmptyRow(names, j) ==
    IF j = 0 THEN <<>>
    ELSE ObjSet(EmptyRow(names, j - 1), names[j], Null)

\* fromCSV after parseCSVRows has returned rws
\* the data array: one row object per raw row from index start (0-based)
dataRows(names, frows, start) ==
    [k \in 1..(Len(frows) - start) |->
        AssembleRow(names, frows[start + k], Len(names))]

\* a headers-only text read as a table of its columns and no row
TableOfData_NoRow(names, data) ==
    IF Len(names) = 0 THEN DataFrame(<<>>)
    ELSE IF Len(data) = 0 THEN [data |-> <<>>, columns |-> names]
    ELSE DataFrame(data)

\* the table of the column names and the data array
TableOfData(names, data) ==
    IF Len(names) = 0 THEN DataFrame(<<>>)
    ELSE IF Len(data) = 0 THEN DataFrame(<<EmptyRow(names, Len(names))>>)
    ELSE DataFrame(data)

TableOfNames(names, frows, hasHeaders) ==
    TableOfData(names, dataRows(names, frows, dataStartIndex(hasHeaders)))

TableOfFiltered(frows, hasHeaders) ==
    IF Len(frows) = 0 THEN DataFrame(<<>>)
    ELSE TableOfNames(columnNames(frows, hasHeaders), frows, hasHeaders)

\* fromCSV after parseCSVRows has returned rws
TableOfRows(rws, options) ==
    TableOfFiltered(filteredRows(rws, Opt(options, "skipEmptyLines", TRUE)),
                    Opt(options, "hasHeaders", TRUE))

fromCSV(csvString, options) ==
    IF IsBlankText(csvString) THEN DataFrame(<<>>)
    ELSE TableOfRows(parseCSVRows(csvString, Opt(options, "delimiter", COMMA)),
                     options)

-----------------------------------------------------------------------------
(* Inputs                                                                  *)

MaxTextLen == 4

\* every string over alphabet of length at most n
RECURSIVE StringsUpTo(_, _)
StringsUpTo(alphabet, n) ==
    IF n = 0 THEN {<<>>}
    ELSE LET shorter == StringsUpTo(alphabet, n - 1)
         IN  shorter \cup {Append(s, c) : s \in shorter, c \in alphabet}

TextAlphabet == {"a", COMMA, ";", QUOTE, LF, CR}

Texts == StringsUpTo(TextAlphabet, MaxTextLen)

\* CSVImportOptions objects
ImportOptions ==
    {{}, {<<"hasHeaders", FALSE>>}, {<<"skipEmptyLines", FALSE>>},
     {<<"delimiter", ";">>}}

\* Tables: the row objects handed to the DataFrame constructor have the
\* keys of one of KeyLists, and each key draws its cells from CellsOf.
MaxRows == 2

CellsA ==
    {Null, Num(NumFin(3, 1)), Str(<<"x">>), Str(<<"x", COMMA, "y">>),
     Str(<<"x", ";", "y">>), Str(<<QUOTE, "x">>), Str(<<"x", LF, "y">>),
     Str(<<"1", CR>>)}

CellsB == {Null, Num(NumFin(5, -1))}

CellsN == {Undefined, Num(NumNaN), Str(<<CR>>)}

CellsOf(key) ==
    IF key = <<"a">> THEN CellsA
    ELSE IF key = <<"b">> THEN CellsB
    ELSE IF key = <<"n">> THEN CellsN
    ELSE {Str(<<"x">>)}

KeyLists ==
    {<< <<"a">> >>, << <<"a">>, <<"b">> >>, << <<"n">> >>,
     << <<"a", COMMA, "b">> >>, << <<"b">>, <<"1">> >>}

\* the row objects with the keys of keys, in that insertion order
RowObjects(keys) ==
    {[k \in 1..Len(keys) |-> <<keys[k], cells[k]>>] :
        cells \in {f \in [1..Len(keys) -> UNION {CellsOf(keys[k]) : k \in 1..Len(keys)}] :
                      \A k \in 1..Len(keys) : f[k] \in CellsOf(keys[k])}}

\* the arrays of at most n row objects
RECURSIVE ArraysUpTo(_, _)
ArraysUpTo(objects, n) ==
    IF n = 0 THEN {<<>>}
    ELSE ArraysUpTo(objects, n - 1)
         \cup {Append(d, o) : d \in ArraysUpTo(objects, n - 1), o \in objects}

Tables == {DataFrame(d) : d \in UNION {ArraysUpTo(RowObjects(keys), MaxRows) : keys \in KeyLists}}

\* a CSVExportOptions object and the CSVImportOptions object that reads
\* its output back
OptionPairs ==
    {<<{}, {}>>,
     <<{<<"delimiter", ";">>}, {<<"delimiter", ";">>}>>,
     <<{<<"includeHeaders", FALSE>>}, {<<"hasHeaders", FALSE>>}>>}

\* Fields for type inference: padding, sign, integer part, fraction and
\* exponent in every combination, and some words
FieldPads == {<<>>, <<" ">>}

FieldSigns == {<<>>, <<"-">>}

FieldInts == {<<>>, <<"0">>, <<"7">>, <<"0", "7">>, <<"0", "0">>, <<"3", "0">>}

FieldFracs == {<<>>, <<".">>, <<".", "5">>}

FieldExps ==
    {<<>>, <<"e">>, <<"e", "2">>, <<"E", "-", "2">>, <<"e", "+", "2">>,
     <<"e", "9", "9", "9">>}

FieldWords ==
    {<<"n", "u", "l", "l">>, <<"N", "U", "L", "L">>, <<"N", "u", "l", "l">>,
     <<"n", "u", "l">>, <<"x">>, <<"7", "x">>}

InferFields ==
    {a \o w \o b : a \in FieldPads, w \in FieldWords, b \in FieldPads}
    \cup {a \o s \o n \o f \o e \o b :
            a \in FieldPads, s \in FieldSigns, n \in FieldInts,
            f \in FieldFracs, e \in FieldExps, b \in FieldPads}

\* Texts of a header line and data lines of differing field counts
MaxCols == 2

HeaderFields == {<<>>, <<"a">>, <<"1">>}

DataFields == {<<>>, <<"x">>, <<"7">>}

\* every non-empty sequence over fields of length at most n
RECURSIVE LinesUpTo(_, _)
LinesUpTo(fields, n) ==
    IF n = 1 THEN {<<f>> : f \in fields}
    ELSE LET shorter == LinesUpTo(fields, n - 1)
         IN  shorter \cup {Append(l, f) : l \in shorter, f \in fields}

HeaderLines == LinesUpTo(HeaderFields, MaxCols)

DataLines == LinesUpTo(DataFields, MaxCols + 1)

\* no data line, one data line, or one data line and a short one
RaggedBodies ==
    {<<>>} \cup {<<l>> : l \in DataLines}
    \cup {<<l, <<(<<"x">>)>> >> : l \in DataLines}

\* the text of the lines: fields joined by commas, lines by LF
RaggedText(lines) ==
    Join([k \in 1..Len(lines) |-> Join(lines[k], <<COMMA>>)], <<LF>>)

RaggedOptions ==
    {{}, {<<"hasHeaders", FALSE>>}, {<<"skipEmptyLines", FALSE>>}}

\* Arrays handed to the constructor: row objects whose key lists differ,
\* and values that are not objects
FrameKeyLists ==
    {<< <<"n">> >>, << <<"b">> >>, << <<"b">>, <<"1">> >>, << <<"n">>, <<"b">> >>}

FrameRows == UNION {RowObjects(keys) : keys \in FrameKeyLists}

Elements ==
    {<<"object", o>> : o \in FrameRows}
    \cup {<<"value", v>> : v \in {Null, Undefined, Num(NumFin(5, -1)), Str(<<"x">>)}}

ConstructorInputs == ArraysUpTo(Elements, MaxRows)

\* column names passed to the methods and the column functions
FrameNames == {<<"b">>, <<"n">>, <<"1">>, <<"z">>}

MaxNames == 2

NameLists == ArraysUpTo(FrameNames, MaxNames)

ExportOptions == {{}, {<<"includeHeaders", FALSE>>}, {<<"delimiter", ";">>}}

\* texts read into the table the methods are called on
FrameTexts ==
    {<<>>, <<" ">>, <<"b">>, <<"b", COMMA, "1", LF, "7", COMMA, "x">>,
     <<"n", LF, "x", LF, "7">>, <<"7", COMMA, COMMA, "z">>}

FrameImportOptions == {{}, {<<"hasHeaders", FALSE>>}}

-----------------------------------------------------------------------------
(* The state machine: toCSV, then fromCSV with its scan loop step by step  *)

scanState ==
    [i |-> i, rows |-> rows, currentRow |-> currentRow, current |-> current,
     inQuotes |-> inQuotes]

ScanIs(st) ==
    /\ i' = st.i
    /\ rows' = st.rows
    /\ currentRow' = st.currentRow
    /\ current' = st.current
    /\ inQuotes' = st.inQuotes

\* what every behaviour starts with, whatever its input
InitCommon ==
    /\ i = 0
    /\ rows = <<>>
    /\ currentRow = <<>>
    /\ current = <<>>
    /\ inQuotes = FALSE
    /\ out = DataFrame(<<>>)
    /\ ret = NoCall

\* fromCSV called on an arbitrary text
InitText ==
    /\ InitCommon
    /\ df = DataFrame(<<>>)
    /\ wopts = {}
    /\ csv \in Texts
    /\ ropts \in ImportOptions
    /\ pc = "text"

\* fromCSV called on one data line of one field, under a header line or
\* without headers
InitInfer ==
    /\ InitCommon
    /\ df = DataFrame(<<>>)
    /\ wopts = {}
    /\ \E f \in InferFields :
          \/ /\ csv = <<"h", LF>> \o f
             /\ ropts \in {{}, {<<"skipEmptyLines", FALSE>>}}
          \/ /\ csv = f
             /\ ropts = {<<"hasHeaders", FALSE>>}
    /\ pc = "text"

\* fromCSV called on a header line and data lines of differing lengths
InitRagged ==
    /\ InitCommon
    /\ df = DataFrame(<<>>)
    /\ wopts = {}
    /\ \E h \in HeaderLines : \E b \in RaggedBodies :
          csv = RaggedText(<<h>> \o b)
    /\ ropts \in RaggedOptions
    /\ pc = "text"

\* a table built by the DataFrame constructor is written, then read back
InitTable ==
    /\ InitCommon
    /\ df \in Tables
    /\ \E op \in OptionPairs : wopts = op[1] /\ ropts = op[2]
    /\ csv = <<>>
    /\ pc = "table"

\* the conditions under which each step of the codec is taken
CanToCSV == pc = "table"

CanBlank == pc = "text" /\ IsBlankText(csv)

CanParse == pc = "text" /\ ~IsBlankText(csv)

CanScan == pc = "scan" /\ i < Len(csv)

\* a return that is not made while a quoted region is open
CanReturn_Closed == pc = "scan" /\ i >= Len(csv) /\ ~inQuotes

CanReturn == pc = "scan" /\ i >= Len(csv)

\* toCSV(df, wopts)
ToCSV ==
    /\ CanToCSV
    /\ csv' = toCSV(df, wopts)
    /\ pc' = "text"
    /\ UNCHANGED <<df, wopts, ropts, i, rows, currentRow, current, inQuotes, out, ret>>

\* fromCSV(csv, ropts): the empty fast path
FromCSVBlank ==
    /\ CanBlank
    /\ out' = DataFrame(<<>>)
    /\ pc' = "done"
    /\ UNCHANGED <<df, wopts, csv, ropts, i, rows, currentRow, current, inQuotes, ret>>

\* fromCSV(csv, ropts): the call of parseCSVRows
FromCSVParse ==
    /\ CanParse
    /\ ScanIs(ScanStart)
    /\ pc' = "scan"
    /\ UNCHANGED <<df, wopts, csv, ropts, out, ret>>

\* parseCSVRows: one iteration of the loop
Scan ==
    /\ CanScan
    /\ ScanIs(ScanStep(scanState, csv, Opt(ropts, "delimiter", COMMA)))
    /\ UNCHANGED <<df, wopts, csv, ropts, out, ret, pc>>

\* parseCSVRows returns its rows and fromCSV builds the table from them
FromCSVReturn ==
    /\ CanReturn
    /\ rows' = ScanFlush(scanState)
    /\ out' = TableOfRows(rows', ropts)
    /\ pc' = "done"
    /\ UNCHANGED <<df, wopts, csv, ropts, i, currentRow, current, inQuotes, ret>>

NextRead == FromCSVBlank \/ FromCSVParse \/ Scan \/ FromCSVReturn

Next == ToCSV \/ NextRead

SpecText == InitText /\ [][NextRead]_vars

SpecTable == InitTable /\ [][Next]_vars

SpecInfer == InitInfer /\ [][NextRead]_vars

SpecRagged == InitRagged /\ [][NextRead]_vars

\* either run of the codec: a text is read, or a table is written and read
InitCodec == InitText \/ InitTable

SpecCodec == InitCodec /\ [][Next]_vars

-----------------------------------------------------------------------------
(* The state machine of a table: it is constructed or read, then one of    *)
(* its methods or one of the column functions is called on it              *)

\* the variables of the codec's stepwise run
codec == <<wopts, i, rows, currentRow, current, inQuotes, out>>

InitFrame ==
    /\ InitCommon
    /\ df = DataFrame(<<>>)
    /\ wopts = {}
    /\ csv = <<>>
    /\ ropts = {}
    /\ pc = "new"

\* new DataFrame(data); a table that holds an element that is not an
\* object is not followed further
Construct ==
    /\ pc = "new"
    /\ \E data \in ConstructorInputs :
          /\ ret' = Call("new", DataFrame(<<>>), data, constructor(data))
          /\ IF constructor(data).status = "ok"
                /\ \A k \in 1..Len(data) : IsObject(data[k])
             THEN df' = constructor(data).value /\ pc' = "frame"
             ELSE df' = df /\ pc' = "halt"
    /\ UNCHANGED <<csv, ropts, codec>>

\* df = fromCSV(text, options)
Import ==
    /\ pc = "new"
    /\ \E text \in FrameTexts : \E options \in FrameImportOptions :
          /\ csv' = text
          /\ ropts' = options
          /\ df' = fromCSV(text, options)
          /\ ret' = Call("fromCSV", DataFrame(<<>>), <<>>, Returned(fromCSV(text, options)))
    /\ pc' = "frame"
    /\ UNCHANGED codec

\* fromCSV(text, options) called while the table df exists
Read ==
    /\ pc = "frame"
    /\ \E text \in FrameTexts : \E options \in FrameImportOptions :
          ret' = Call("fromCSV", df, <<>>, Returned(fromCSV(text, options)))
    /\ pc' = "called"
    /\ UNCHANGED <<df, csv, ropts, codec>>

\* df.getColumnNames()
GetColumnNames ==
    /\ pc = "frame"
    /\ ret' = Call("getColumnNames", df, <<>>, Returned(getColumnNames(df)))
    /\ pc' = "called"
    /\ UNCHANGED <<df, csv, ropts, codec>>

\* df.getRows()
GetRows ==
    /\ pc = "frame"
    /\ ret' = Call("getRows", df, <<>>, Returned(getRows(df)))
    /\ pc' = "called"
    /\ UNCHANGED <<df, csv, ropts, codec>>

\* a select that replaces the rows and columns of the table it is called on
Select_InPlace ==
    /\ pc = "frame"
    /\ \E names \in NameLists :
          /\ ret' = Call("select", df, names, select(df, names))
          /\ df' = IF select(df, names).status = "ok"
                   THEN select(df, names).value ELSE df
    /\ pc' = "called"
    /\ UNCHANGED <<csv, ropts, codec>>

\* df.select(...columnNames)
Select ==
    /\ pc = "frame"
    /\ \E names \in NameLists :
          ret' = Call("select", df, names, select(df, names))
    /\ pc' = "called"
    /\ UNCHANGED <<df, csv, ropts, codec>>

\* select of one column called on the table a select has returned
SelectAgain ==
    /\ pc = "called"
    /\ ret.op = "select"
    /\ ret.outcome.status = "ok"
    /\ \E name \in FrameNames :
          ret' = Call("select", ret.outcome.value, <<name>>,
                      select(ret.outcome.value, <<name>>))
    /\ UNCHANGED <<df, csv, ropts, pc, codec>>

\* df.getColumn(columnName)
GetColumn ==
    /\ pc = "frame"
    /\ \E columnName \in FrameNames :
          ret' = Call("getColumn", df, columnName, getColumn(df, columnName))
    /\ pc' = "called"
    /\ UNCHANGED <<df, csv, ropts, codec>>

IsNumeric ==
    /\ pc = "frame"
    /\ \E columnName \in FrameNames :
          ret' = Call("isNumeric", df, columnName, isNumeric(df, columnName))
    /\ pc' = "called"
    /\ UNCHANGED <<df, csv, ropts, codec>>

IsString ==
    /\ pc = "frame"
    /\ \E columnName \in FrameNames :
          ret' = Call("isString", df, columnName, isString(df, columnName))
    /\ pc' = "called"
    /\ UNCHANGED <<df, csv, ropts, codec>>

GetColumnType ==
    /\ pc = "frame"
    /\ \E columnName \in FrameNames :
          ret' = Call("getColumnType", df, columnName, getColumnType(df, columnName))
    /\ pc' = "called"
    /\ UNCHANGED <<df, csv, ropts, codec>>

\* getColumnType called on the table a select has returned
GetColumnTypeOfSelected ==
    /\ pc = "called"
    /\ ret.op = "select"
    /\ ret.outcome.status = "ok"
    /\ \E columnName \in FrameNames :
          ret' = Call("getColumnType", ret.outcome.value, columnName,
                      getColumnType(ret.outcome.value, columnName))
    /\ UNCHANGED <<df, csv, ropts, pc, codec>>

IsNull ==
    /\ pc = "frame"
    /\ \E columnName \in FrameNames :
          ret' = Call("isNull", df, columnName, isNull(df, columnName))
    /\ pc' = "called"
    /\ UNCHANGED <<df, csv, ropts, codec>>

IsNaN ==
    /\ pc = "frame"
    /\ \E columnName \in FrameNames :
          ret' = Call("isNaN", df, columnName, isNaN(df, columnName))
    /\ pc' = "called"
    /\ UNCHANGED <<df, csv, ropts, codec>>

NotNull ==
    /\ pc = "frame"
    /\ \E columnName \in FrameNames :
          ret' = Call("notNull", df, columnName, notNull(df, columnName))
    /\ pc' = "called"
    /\ UNCHANGED <<df, csv, ropts, codec>>

HasNull ==
    /\ pc = "frame"
    /\ \E columnName \in FrameNames :
          ret' = Call("hasNull", df, columnName, hasNull(df, columnName))
    /\ pc' = "called"
    /\ UNCHANGED <<df, csv, ropts, codec>>

HasNaN ==
    /\ pc = "frame"
    /\ \E columnName \in FrameNames :
          ret' = Call("hasNaN", df, columnName, hasNaN(df, columnName))
    /\ pc' = "called"
    /\ UNCHANGED <<df, csv, ropts, codec>>

CountNull ==
    /\ pc = "frame"
    /\ \E columnName \in FrameNames :
          ret' = Call("countNull", df, columnName, countNull(df, columnName))
    /\ pc' = "called"
    /\ UNCHANGED <<df, csv, ropts, codec>>

CountNaN ==
    /\ pc = "frame"
    /\ \E columnName \in FrameNames :
          ret' = Call("countNaN", df, columnName, countNaN(df, columnName))
    /\ pc' = "called"
    /\ UNCHANGED <<df, csv, ropts, codec>>

\* toCSV(df, options), its text kept as the outcome of the call
Export ==
    /\ pc = "frame"
    /\ \E options \in ExportOptions :
          ret' = Call("toCSV", df, options, Returned(toCSV(df, options)))
    /\ pc' = "called"
    /\ UNCHANGED <<df, csv, ropts, codec>>

NextFrame ==
    \/ Construct \/ Import \/ Read \/ GetColumnNames \/ GetRows
    \/ Select \/ SelectAgain \/ GetColumn
    \/ IsNumeric \/ IsString \/ GetColumnType \/ GetColumnTypeOfSelected
    \/ IsNull \/ IsNaN \/ NotNull \/ HasNull \/ HasNaN \/ CountNull \/ CountNaN
    \/ Export

SpecFrame == InitFrame /\ [][NextFrame]_vars

\* the stepwise run returns what the function returns
RunIsFromCSV == pc = "done" => out = fromCSV(csv, ropts)

-----------------------------------------------------------------------------
(* Properties of the tokenizer                                             *)

delimiterOf(options) == Opt(options, "delimiter", COMMA)

\* the character under the scan index and the one after it
charAt == csv[i + 1]
nextCharAt == IF i + 1 < Len(csv) THEN csv[i + 2] ELSE "null"

InLoop == pc = "scan" /\ i < Len(csv)

\* the text csvString with every LF replaced by the terminator term
RECURSIVE WithTerminator(_, _)
WithTerminator(csvString, term) ==
    IF csvString = <<>> THEN <<>>
    ELSE (IF Head(csvString) = LF THEN term ELSE <<Head(csvString)>>)
         \o WithTerminator(Tail(csvString), term)

NoTerminatorIn(field) == ~Includes(field, LF) /\ ~Includes(field, CR)

\* C3: line-ending robustness. For a text of unquoted fields whose rows are
\* separated by LF, the texts with CR LF and with bare CR in place of LF
\* parse to the same raw rows and the same table, and after any run over a
\* text of unquoted fields no raw field and no column name holds a CR or LF.
\* (Stated for the texts fromCSV hands to parseCSVRows.)
C3_LineEndings ==
    /\ (pc = "done" /\ ~IsBlankText(csv)
          /\ ~Includes(csv, QUOTE) /\ ~Includes(csv, CR)) =>
         LET crlf == WithTerminator(csv, <<CR, LF>>)
             cr == WithTerminator(csv, <<CR>>)
             d == delimiterOf(ropts)
         IN  /\ parseCSVRows(crlf, d) = parseCSVRows(csv, d)
             /\ parseCSVRows(cr, d) = parseCSVRows(csv, d)
             /\ fromCSV(crlf, ropts) = fromCSV(csv, ropts)
             /\ fromCSV(cr, ropts) = fromCSV(csv, ropts)
    /\ (pc = "done" /\ ~Includes(csv, QUOTE)) =>
         /\ \A r \in 1..Len(rows) : \A f \in 1..Len(rows[r]) :
                NoTerminatorIn(rows[r][f])
         /\ \A c \in 1..Len(out.columns) : NoTerminatorIn(out.columns[c])

\* C4: quoted regions. Inside a quoted region the delimiter, LF and CR are
\* appended to the current field and end neither the field nor the row; a
\* doubled quote adds exactly one quote to the field; a quote followed by
\* anything else ends the region; the opening and the closing quote add
\* nothing to the field.
C4_QuotedRegion ==
    [][InLoop =>
        /\ (inQuotes /\ charAt \in {delimiterOf(ropts), LF, CR}) =>
              /\ current' = Append(current, charAt)
              /\ inQuotes'
              /\ i' = i + 1
              /\ UNCHANGED <<currentRow, rows>>
        /\ (inQuotes /\ charAt = QUOTE /\ nextCharAt = QUOTE) =>
              /\ current' = Append(current, QUOTE)
              /\ inQuotes'
              /\ i' = i + 2
              /\ UNCHANGED <<currentRow, rows>>
        /\ (inQuotes /\ charAt = QUOTE /\ nextCharAt # QUOTE) =>
              /\ ~inQuotes'
              /\ i' = i + 1
              /\ UNCHANGED <<current, currentRow, rows>>
        /\ (~inQuotes /\ charAt = QUOTE) =>
              /\ inQuotes'
              /\ i' = i + 1
              /\ UNCHANGED <<current, currentRow, rows>>
    ]_vars

\* a quoted region that has taken in a doubled quote and a separator
C4_Witness ==
    /\ pc = "scan"
    /\ inQuotes
    /\ Includes(current, QUOTE)
    /\ \E c \in {delimiterOf(ropts), LF, CR} : Includes(current, c)

-----------------------------------------------------------------------------
(* Properties of writing a table and reading it back                       *)

DefaultOptions == wopts = {} /\ ropts = {}

\* the cell of row r under the column named col
Cell(d, r, col) == ObjGet(d.data[r], col)

ControlChars == {LF, CR, "\t"}

\* every cell is null, a number or a string, no column name holds a
\* control character
PlainTable(d) ==
    /\ \A r \in 1..Len(d.data) : \A c \in 1..Len(d.columns) :
          Cell(d, r, d.columns[c]).t \in {"null", "number", "string"}
    /\ \A c \in 1..Len(d.columns) : \A p \in 1..Len(d.columns[c]) :
          d.columns[c][p] \notin ControlChars

\* same column names in the same order, same row count, same cells
SameTable(d, e) ==
    /\ d.columns = e.columns
    /\ Len(d.data) = Len(e.data)
    /\ \A r \in 1..Len(e.data) : \A c \in 1..Len(e.columns) :
          Cell(d, r, e.columns[c]) = Cell(e, r, e.columns[c])

\* C1: round trip. With default options on both sides, reading back what
\* toCSV wrote for a table of null / number / string cells, whose column
\* names hold no control character, gives the same column names in the
\* same order, the same row count and in every cell the same value.
C1_RoundTrip ==
    (pc = "done" /\ DefaultOptions /\ PlainTable(df)) => SameTable(out, df)

\* the string holds a comma, a double quote, LF or CR
HasSpecial(s) ==
    Includes(s, COMMA) \/ Includes(s, QUOTE) \/ Includes(s, LF) \/ Includes(s, CR)

\* s between double quotes, each quote inside it written twice
QuotedForm(s) ==
    <<QUOTE>>
    \o Join([p \in 1..Len(s) |-> IF s[p] = QUOTE THEN <<QUOTE, QUOTE>> ELSE <<s[p]>>],
            <<>>)
    \o <<QUOTE>>

\* the string cells of the table that hold a special character
SpecialCells(d) ==
    {Cell(d, r, d.columns[c]).s : r \in 1..Len(d.data), c \in 1..Len(d.columns)}
      \ {s \in {Cell(d, r, d.columns[c]).s : r \in 1..Len(d.data), c \in 1..Len(d.columns)} :
            ~HasSpecial(s)}

\* the trimmed text is a null literal or a numeral that inference accepts
ReadsAsOther(s) ==
    \/ Trim(s) \in {<<>>, <<"n", "u", "l", "l">>, <<"N", "U", "L", "L">>}
    \/ InferValue(s).t = "number"

RuleField(value, delimiter) ==
    IF value.t \in {"null", "undefined"} THEN <<>>
    ELSE IF value.t = "number" THEN String(value)
    ELSE IF Includes(value.s, delimiter) \/ Includes(value.s, QUOTE)
            \/ Includes(value.s, LF) \/ Includes(value.s, CR)
         THEN QuotedForm(value.s)
         ELSE value.s

RuleLine(row, columns, delimiter) ==
    Join([c \in 1..Len(columns) |-> RuleField(ObjGet(row, columns[c]), delimiter)],
         <<delimiter>>)

\* the text toCSV returned, split at its header line when it has one
HeaderPart(d, options) ==
    IF Opt(options, "includeHeaders", TRUE)
    THEN <<HeaderLine(d.columns, Opt(options, "delimiter", COMMA))>>
    ELSE <<>>

\* C5: escaping rule. For every delimiter passed to toCSV, a string cell
\* is written quoted (quotes doubled) if and only if it holds that
\* delimiter, a double quote, LF or CR, and unchanged otherwise.
C5_EscapingRule ==
    (pc = "text" /\ Len(df.data) > 0) =>
        csv = Join(HeaderPart(df, wopts)
                   \o [r \in 1..Len(df.data) |->
                         RuleLine(df.data[r], df.columns, delimiterOf(wopts))],
                   <<LF>>)

\* C6: header escaping. The header line holds every column name written
\* by the string escaping rule of escapeCSVValue: quoted, with quotes
\* doubled, when the name holds a comma, a quote or a line break.
C6_HeaderEscaping ==
    (pc = "text" /\ Len(df.data) > 0 /\ Opt(wopts, "includeHeaders", TRUE)) =>
        csv = Join(<<Join([c \in 1..Len(df.columns) |->
                             escapeCSVValue(Str(df.columns[c]), FALSE)],
                          <<delimiterOf(wopts)>>)>>
                   \o [r \in 1..Len(df.data) |->
                         DataLine(df.data[r], df.columns, delimiterOf(wopts))],
                   <<LF>>)

-----------------------------------------------------------------------------
(* Properties of the table fromCSV builds from the raw rows                *)

\* the raw rows fromCSV keeps, its column names and its raw data rows
KeptRows == filteredRows(rows, Opt(ropts, "skipEmptyLines", TRUE))

HeaderNames == columnNames(KeptRows, Opt(ropts, "hasHeaders", TRUE))

RawDataRows ==
    SubSeq(KeptRows, dataStartIndex(Opt(ropts, "hasHeaders", TRUE)) + 1,
           Len(KeptRows))

\* fromCSV has returned a table assembled from at least one raw data row
HasDataRows == pc = "done" /\ Len(KeptRows) > 0 /\ Len(RawDataRows) > 0

\* the j-th header field is the last one with its name
LastOfName(names, j) == \A j2 \in (j + 1)..Len(names) : names[j2] # names[j]

\* the field of raw row k at header position j ('' when the row is short)
RawField(k, j) ==
    IF j <= Len(RawDataRows[k]) THEN RawDataRows[k][j] ELSE <<>>

NullLiterals == {<<>>, <<"n", "u", "l", "l">>, <<"N", "U", "L", "L">>}

\* a spelling of null that is not one of the two literals
OtherNullSpelling(s) ==
    /\ Len(s) = 4
    /\ s[1] \in {"n", "N"}
    /\ s[2] \in {"u", "U"}
    /\ s[3] \in {"l", "L"}
    /\ s[4] \in {"l", "L"}
    /\ s \notin NullLiterals

\* C7: null literals. A cell is null exactly when its field, trimmed, is
\* empty, 'null' or 'NULL'; another spelling such as 'Null' is kept as the
\* string the field holds.
C7_NullLiterals ==
    HasDataRows =>
        \A k \in 1..Len(RawDataRows) : \A j \in 1..Len(HeaderNames) :
            LastOfName(HeaderNames, j) =>
                /\ (Cell(out, k, HeaderNames[j]) = Null)
                     <=> (Trim(RawField(k, j)) \in NullLiterals)
                /\ OtherNullSpelling(Trim(RawField(k, j))) =>
                     Cell(out, k, HeaderNames[j]) = Str(RawField(k, j))

\* the field ' Null' has been kept as a string and a field 'NULL ' made null
C7_Witness ==
    /\ HasDataRows
    /\ \/ /\ RawField(1, 1) = <<" ", "N", "u", "l", "l">>
          /\ Cell(out, 1, <<"h">>) = Str(<<" ", "N", "u", "l", "l">>)
       \/ /\ RawField(1, 1) = <<"N", "U", "L", "L", " ">>
          /\ Cell(out, 1, <<"h">>) = Null

\* s[lo..hi] is a non-empty run of digits
DigitRun(s, lo, hi) == lo <= hi /\ \A p \in lo..hi : s[p] \in Digits

\* s is: optional '-', digits, optional '.digits', optional exponent
IsNumeral(s) ==
    \E p1 \in 1..2 : \E p2 \in p1..Len(s) : \E p3 \in p2..Len(s) :
        /\ p1 = 2 => s[1] = "-"
        /\ p1 = 1 => s[1] # "-"
        /\ DigitRun(s, p1, p2)
        /\ p3 > p2 => (s[p2 + 1] = "." /\ DigitRun(s, p2 + 2, p3))
        /\ p3 < Len(s) =>
              /\ s[p3 + 1] \in {"e", "E"}
              /\ \/ DigitRun(s, p3 + 2, Len(s))
                 \/ (p3 + 2 <= Len(s) /\ s[p3 + 2] \in {"+", "-"}
                     /\ DigitRun(s, p3 + 3, Len(s)))

\* after an optional '-', s starts with zeros followed by a nonzero digit
StartsWithZeros(s) ==
    \E p1 \in 1..2 : \E z \in p1..(Len(s) - 1) :
        /\ p1 = 2 => s[1] = "-"
        /\ \A p \in p1..z : s[p] = "0"
        /\ s[z + 1] \in Digits \ {"0"}

\* the original statement of C8: a non-null field becomes a number exactly
\* when its trimmed text is a numeral that does not start with zeros
\* followed by a nonzero digit, and is otherwise the untrimmed field
C8_NumericOriginal ==
    HasDataRows =>
        \A k \in 1..Len(RawDataRows) : \A j \in 1..Len(HeaderNames) :
            (LastOfName(HeaderNames, j) /\ Trim(RawField(k, j)) \notin NullLiterals) =>
                IF IsNumeral(Trim(RawField(k, j))) /\ ~StartsWithZeros(Trim(RawField(k, j)))
                THEN Cell(out, k, HeaderNames[j]).t = "number"
                ELSE Cell(out, k, HeaderNames[j]) = Str(RawField(k, j))

\* C8 (amended): a non-null field becomes a number exactly when its trimmed
\* text is a numeral (optional '-', digits, optional '.digits', optional
\* exponent) that does not start, after the optional '-', with zeros
\* followed by a nonzero digit, and whose value is finite; in every other
\* case, '7e999' included, the cell is the untrimmed field as a string.
C8_Numeric ==
    HasDataRows =>
        \A k \in 1..Len(RawDataRows) : \A j \in 1..Len(HeaderNames) :
            (LastOfName(HeaderNames, j) /\ Trim(RawField(k, j)) \notin NullLiterals) =>
                IF /\ IsNumeral(Trim(RawField(k, j)))
                   /\ ~StartsWithZeros(Trim(RawField(k, j)))
                   /\ Number(Trim(RawField(k, j)))[1] = "fin"
                THEN Cell(out, k, HeaderNames[j]) = Num(Number(Trim(RawField(k, j))))
                ELSE Cell(out, k, HeaderNames[j]) = Str(RawField(k, j))

\* the padded field ' -30.5e+2' has become the number -3050
C8_Witness ==
    /\ HasDataRows
    /\ RawField(1, 1) = <<" ", "-", "3", "0", ".", "5", "e", "+", "2">>
    /\ Cell(out, 1, <<"h">>) = Num(NumFin(-305, 1))

\* the names of the cells the row object holds
RowKeys(row) == {row[p][1] : p \in 1..Len(row)}

NameSet(names) == {names[j] : j \in 1..Len(names)}

\* the row object holds exactly one cell for each of the names
OneCellPerName(row, names) ==
    RowKeys(row) = NameSet(names) /\ Len(row) = Cardinality(NameSet(names))

\* C9: ragged rows. Each data row of the returned table has exactly one
\* cell per column name; a column past the end of a short row is null, the
\* fields past the column count are dropped, and the cell under the j-th
\* name comes from the j-th field of the row.
C9_RaggedRows ==
    HasDataRows =>
        /\ Len(out.data) = Len(RawDataRows)
        /\ \A k \in 1..Len(RawDataRows) :
              /\ OneCellPerName(out.data[k], HeaderNames)
              /\ \A j \in 1..Len(HeaderNames) :
                    LastOfName(HeaderNames, j) =>
                        Cell(out, k, HeaderNames[j]) =
                            IF j <= Len(RawDataRows[k])
                            THEN InferValue(RawDataRows[k][j])
                            ELSE Null

\* a row of three fields under two distinct names has lost its third field,
\* and the short row after it has null in its second column
C9_Witness ==
    /\ HasDataRows
    /\ HeaderNames = <<(<<"a">>), <<"1">>>>
    /\ RawDataRows = <<(<<(<<"7">>), <<"x">>, <<"x">>>>), <<(<<"x">>)>> >>
    /\ Cell(out, 1, <<"a">>) = Num(NumFin(7, 0))
    /\ Cell(out, 1, <<"1">>) = Str(<<"x">>)
    /\ Cell(out, 2, <<"a">>) = Str(<<"x">>)
    /\ Cell(out, 2, <<"1">>) = Null

\* fromCSV has returned with headers on, a header row kept and no data row
HeadersOnly ==
    /\ pc = "done"
    /\ Opt(ropts, "hasHeaders", TRUE)
    /\ Len(KeptRows) = 1
    /\ Len(KeptRows[1]) > 0

\* C10: headers-only input. With hasHeaders true, a header row and no data
\* row, the table has exactly one row, its columns are the header names and
\* each of its cells is null.
C10_HeadersOnly ==
    HeadersOnly =>
        /\ Len(out.data) = 1
        /\ NameSet(out.columns) = NameSet(KeptRows[1])
        /\ OneCellPerName(out.data[1], KeptRows[1])
        /\ \A j \in 1..Len(KeptRows[1]) : Cell(out, 1, KeptRows[1][j]) = Null

\* the text 'a,1' alone has given one row of two null cells
C10_Witness ==
    /\ HeadersOnly
    /\ csv = <<"a", COMMA, "1">>
    /\ Len(out.data) = 1
    /\ Cell(out, 1, <<"a">>) = Null
    /\ Cell(out, 1, <<"1">>) = Null

-----------------------------------------------------------------------------
(* Empty input, empty lines and header resolution                          *)

\* every character of s is white space (s may be empty)
OnlyWhiteSpace(s) == \A p \in 1..Len(s) : s[p] \in WhiteSpace

EmptyTable(d) == d.data = <<>> /\ d.columns = <<>>

\* C11: empty input. fromCSV of the empty string or of whitespace-only text
\* returns a table with zero rows and zero columns, whatever the options.
C11_EmptyInput ==
    (pc = "done" /\ OnlyWhiteSpace(csv)) => EmptyTable(out)

\* the text LF CR has been read with skipEmptyLines off
C11_Witness ==
    /\ pc = "done"
    /\ csv = <<LF, CR>>
    /\ ropts = {<<"skipEmptyLines", FALSE>>}
    /\ EmptyTable(out)

\* some field of the raw row holds a character that is not white space
RowHasText(row) ==
    \E k \in 1..Len(row) : \E p \in 1..Len(row[k]) : row[k][p] \notin WhiteSpace

\* the raw rows that remain, in their order
RemainingRows ==
    IF Opt(ropts, "skipEmptyLines", TRUE) THEN SelectSeq(rows, RowHasText) ELSE rows

\* the position in RemainingRows of the raw row behind data row k
RemainingAt(k) == RemainingRows[dataStartIndex(Opt(ropts, "hasHeaders", TRUE)) + k]

\* fromCSV has returned after tokenizing its text
Parsed == pc = "done" /\ rows # <<>>

\* C12: empty lines. With skipEmptyLines true the table is built from the
\* raw rows that have a non-blank field, in their order; with
\* skipEmptyLines false it is built from all raw rows, and a blank line
\* between data lines is a data row whose cells are all null.
C12_EmptyLines ==
    Parsed =>
        /\ RemainingRows = <<>> => EmptyTable(out)
        /\ RemainingRows # <<>> =>
              /\ HeaderNames = columnNames(RemainingRows, Opt(ropts, "hasHeaders", TRUE))
              /\ Len(RawDataRows) > 0 =>
                    /\ Len(out.data) = Len(RawDataRows)
                    /\ \A k \in 1..Len(out.data) : \A j \in 1..Len(HeaderNames) :
                          /\ LastOfName(HeaderNames, j) =>
                                Cell(out, k, HeaderNames[j]) =
                                    IF j <= Len(RemainingAt(k))
                                    THEN InferValue(RemainingAt(k)[j])
                                    ELSE Null
                          /\ ~RowHasText(RemainingAt(k)) =>
                                Cell(out, k, HeaderNames[j]) = Null

\* with skipEmptyLines off, the blank line of 'a', '', 'a' is a row of null
C12_Witness ==
    /\ Parsed
    /\ csv = <<"a", LF, LF, "a">>
    /\ ropts = {<<"skipEmptyLines", FALSE>>}
    /\ Len(out.data) = 2
    /\ Cell(out, 1, <<"a">>) = Null
    /\ Cell(out, 2, <<"a">>) = Str(<<"a">>)

\* no two fields of the header row are equal
DistinctNames(names) ==
    \A j \in 1..Len(names) : \A j2 \in 1..Len(names) :
        names[j] = names[j2] => j = j2

\* C13: header resolution. With hasHeaders true the column names are the
\* fields of the first remaining raw row in the same order (checked for a
\* header of pairwise distinct fields) and the data rows are the rows after
\* it; with hasHeaders false the names are column1..columnN for the N
\* fields of the first remaining row, which is itself the first data row.
C13_HeaderResolution ==
    (Parsed /\ RemainingRows # <<>>) =>
        IF Opt(ropts, "hasHeaders", TRUE)
        THEN DistinctNames(RemainingRows[1]) =>
                /\ out.columns = RemainingRows[1]
                /\ Len(RemainingRows) > 1 => Len(out.data) = Len(RemainingRows) - 1
        ELSE /\ out.columns =
                  [k \in 1..Len(RemainingRows[1]) |->
                      <<"c", "o", "l", "u", "m", "n">> \o DigitsOf(k)]
             /\ Len(out.data) = Len(RemainingRows)
             /\ \A j \in 1..Len(RemainingRows[1]) :
                   Cell(out, 1, out.columns[j]) = InferValue(RemainingRows[1][j])

-----------------------------------------------------------------------------
(* The writer's output                                                     *)

\* toCSV has returned csv for df under wopts
Written == pc \in {"text", "scan", "done"}

\* the field written for a cell: empty for an absent cell, the bare text of
\* a number, the escaped text of a string
WrittenField(value) ==
    IF value.t \in {"null", "undefined"} THEN <<>>
    ELSE IF value.t = "number" THEN NumberToString(value.n)
    ELSE EscapeText(value.s)

WrittenLine(row, columns, delimiter) ==
    Join([c \in 1..Len(columns) |-> WrittenField(ObjGet(row, columns[c]))],
         <<delimiter>>)

WrittenLines(d, options) ==
    (IF Opt(options, "includeHeaders", TRUE)
     THEN <<Join(d.columns, <<Opt(options, "delimiter", COMMA)>>)>>
     ELSE <<>>)
    \o [r \in 1..Len(d.data) |->
            WrittenLine(d.data[r], d.columns, Opt(options, "delimiter", COMMA))]

\* C15: writer output. For a table with at least one row toCSV returns its
\* lines joined by LF with no trailing newline: the header line of the
\* delimiter-joined column names when includeHeaders is true, then one line
\* per row in row order, each the delimiter-joined fields in column order,
\* an absent cell being the empty field and a number cell its bare text.
C15_WriterOutput ==
    (Written /\ Len(df.data) > 0) => csv = Join(WrittenLines(df, wopts), <<LF>>)

\* two rows {a: null, b: 0.5} and {a: 30, b: null} written without headers
C15_Witness ==
    /\ Written
    /\ wopts = {<<"includeHeaders", FALSE>>}
    /\ Len(df.data) = 2
    /\ df.data[1] = << <<(<<"a">>), Null>>, <<(<<"b">>), Num(NumFin(5, -1))>> >>
    /\ df.data[2] = << <<(<<"a">>), Num(NumFin(3, 1))>>, <<(<<"b">>), Null>> >>
    /\ csv = <<COMMA, "0", ".", "5", LF, "3", "0", COMMA>>

-----------------------------------------------------------------------------
(* Properties of the table's methods and of the column functions           *)

\* the last call was op and it returned
ReturnedFrom(op) == ret.op = op /\ ret.outcome.status = "ok"

ZeroRowsZeroColumns(d) == Len(d.data) = 0 => Len(d.columns) = 0

\* C16: a table with zero rows has zero columns, whether it comes from the
\* constructor, from select or from fromCSV, and toCSV of such a table
\* returns the empty string whatever includeHeaders is.
C16_ZeroRows ==
    /\ ZeroRowsZeroColumns(df)
    /\ (ReturnedFrom("new") \/ ReturnedFrom("select") \/ ReturnedFrom("fromCSV"))
          => ZeroRowsZeroColumns(ret.outcome.value)
    /\ (ReturnedFrom("toCSV") /\ Len(ret.self.data) = 0)
          => ret.outcome.value = <<>>

\* the table read from a blank text has been written with headers on
C16_Witness ==
    /\ ReturnedFrom("toCSV")
    /\ csv = <<" ">>
    /\ ret.self = df
    /\ Len(df.data) = 0
    /\ Opt(ret.args, "includeHeaders", TRUE)
    /\ ret.outcome.value = <<>>

\* C17: column fetch. getColumn(name) returns the column's values in row
\* order when name is one of the table's columns and fails when it is not.
C17_ColumnFetch ==
    ret.op = "getColumn" =>
        IF \E c \in 1..Len(ret.self.columns) : ret.self.columns[c] = ret.args
        THEN /\ ret.outcome.status = "ok"
             /\ ret.outcome.value =
                    [r \in 1..Len(ret.self.data) |-> Cell(ret.self, r, ret.args)]
        ELSE ret.outcome.status = "error"

ColumnFunctions ==
    {"isNumeric", "isString", "getColumnType", "isNull", "isNaN", "notNull",
     "hasNull", "hasNaN", "countNull", "countNaN"}

HasColumn(d, name) == \E c \in 1..Len(d.columns) : d.columns[c] = name

\* the call failed with this message and without a result
FailedWith(msg) ==
    ret.outcome.status = "error" /\ ret.outcome.message = msg /\ ret.outcome.value = <<>>

\* the outcomes C18 requires of the call recorded in ret
ColumnErrors ==
    /\ (ret.op \in ColumnFunctions /\ ~HasColumn(ret.self, ret.args))
          => FailedWith(<<"Column \"", ret.args, "\" does not exist">>)
    /\ (ret.op \in ColumnFunctions /\ Len(ret.self.data) = 0)
          => ret.outcome.status = "error"
    /\ (ret.op = "select" /\ Len(ret.args) = 0)
          => FailedWith(<<"At least one column must be selected">>)
    /\ (ret.op = "select" /\ \E k \in 1..Len(ret.args) : ~HasColumn(ret.self, ret.args[k]))
          => \E k \in 1..Len(ret.args) :
                /\ ~HasColumn(ret.self, ret.args[k])
                /\ FailedWith(<<"Column \"", ret.args[k], "\" does not exist">>)
    /\ (ret.op = "select" /\ Len(ret.self.data) = 0)
          => ret.outcome.status = "error"

\* C18: column-addressed errors. select and the ten column functions throw
\* 'Column "<name>" does not exist' for a name that is not a column (always
\* on a zero-row table), select throws 'At least one column must be
\* selected' for no names; a failing call has no result and leaves the
\* table unchanged.
C18_ColumnErrors ==
    /\ []ColumnErrors
    /\ [][ret'.outcome.status = "error" => df' = df]_vars

\* countNaN of a column the two-row table does not have has failed
C18_Witness ==
    /\ ret.op = "countNaN"
    /\ ret.args = <<"z">>
    /\ Len(df.data) = 2
    /\ ret.self = df
    /\ FailedWith(<<"Column \"", <<"z">>, "\" does not exist">>)

\* C19: select of k >= 1 existing names (checked for pairwise distinct
\* names) returns a table with the same number of rows in the same order,
\* whose column names are the names in the order given and whose cells
\* equal the source's cells for those columns.
C19_Select ==
    (/\ ret.op = "select"
     /\ Len(ret.args) >= 1
     /\ DistinctNames(ret.args)
     /\ \A k \in 1..Len(ret.args) : HasColumn(ret.self, ret.args[k]))
    => /\ ret.outcome.status = "ok"
       /\ ret.outcome.value.columns = ret.args
       /\ Len(ret.outcome.value.data) = Len(ret.self.data)
       /\ \A r \in 1..Len(ret.self.data) : \A k \in 1..Len(ret.args) :
             Cell(ret.outcome.value, r, ret.args[k]) = Cell(ret.self, r, ret.args[k])

\* C20: construction validation. The constructor fails with 'DataFrame data
\* must be an array of objects' exactly when some element of a non-empty
\* input is not an object; an empty array is accepted.
C20_Construction ==
    ret.op = "new" =>
        IF \E k \in 1..Len(ret.args) : ret.args[k][1] # "object"
        THEN FailedWith(<<"DataFrame data must be an array of objects">>)
        ELSE ret.outcome.status = "ok"

-----------------------------------------------------------------------------
(* The codec raises no error                                               *)

\* d has column names, and each of its rows has a null, number or string
\* cell under each of them
IsTable(d) ==
    /\ Len(d.columns) >= 0
    /\ \A r \in 1..Len(d.data) : \A c \in 1..Len(d.columns) :
          /\ ObjHas(d.data[r], d.columns[c])
          /\ Cell(d, r, d.columns[c]).t \in {"null", "number", "string"}

\* a call of toCSV or fromCSV is under way
CodecRunning == pc \in {"table", "text", "scan"}

-----------------------------------------------------------------------------
(* Immutability and row conformance                                        *)

Conforms(d) == \A r \in 1..Len(d.data) : RowKeys(d.data[r]) = NameSet(d.columns)

\* C22: row conformance. In every table built by the constructor, by select
\* or by fromCSV, each row has exactly the column names of the table's
\* column list, which is derived from the first row.
C22_RowConformance ==
    /\ pc \in {"frame", "called"} => Conforms(df)
    /\ (ReturnedFrom("select") \/ ReturnedFrom("fromCSV"))
          => Conforms(ret.outcome.value)

-----------------------------------------------------------------------------
(* Null and NaN masks, column types                                        *)

\* the last call was a column function asked about a column the table has
AskedOfColumn == ret.op \in ColumnFunctions /\ HasColumn(ret.self, ret.args)

\* row by row: the cell of the column asked about is null or undefined
NullMask ==
    [r \in 1..Len(ret.self.data) |->
        Cell(ret.self, r, ret.args).t \in {"null", "undefined"}]

\* row by row: the cell of the column asked about is the number NaN
NaNMask ==
    [r \in 1..Len(ret.self.data) |->
        Cell(ret.self, r, ret.args).t = "number"
        /\ Cell(ret.self, r, ret.args).n[1] = "nan"]

TrueCount(mask) == Cardinality({r \in 1..Len(mask) : mask[r]})

\* C23: null and NaN masks. For an existing column isNull has one boolean
\* per row, true exactly for null or undefined cells; notNull is its
\* negation, countNull its number of true entries, hasNull whether that
\* number is positive; isNaN, hasNaN and countNaN are the same for NaN
\* cells; no row is flagged by both masks.
C23_Masks ==
    AskedOfColumn =>
        /\ ret.op = "isNull" => ret.outcome.value = NullMask
        /\ ret.op = "notNull" =>
              ret.outcome.value = [r \in 1..Len(NullMask) |-> ~NullMask[r]]
        /\ ret.op = "countNull" => ret.outcome.value = TrueCount(NullMask)
        /\ ret.op = "hasNull" => ret.outcome.value = (TrueCount(NullMask) > 0)
        /\ ret.op = "isNaN" => ret.outcome.value = NaNMask
        /\ ret.op = "countNaN" => ret.outcome.value = TrueCount(NaNMask)
        /\ ret.op = "hasNaN" => ret.outcome.value = (TrueCount(NaNMask) > 0)
        /\ \A r \in 1..Len(NullMask) : ~(NullMask[r] /\ NaNMask[r])

\* countNull has counted the undefined cell of a column whose other cell
\* is NaN
C23_Witness ==
    /\ ret.op = "countNull"
    /\ ret.args = <<"n">>
    /\ Len(ret.self.data) = 2
    /\ Cell(ret.self, 1, <<"n">>) = Undefined
    /\ Cell(ret.self, 2, <<"n">>) = Num(NumNaN)
    /\ ret.outcome.value = 1

\* the rows whose cell of the column asked about is present
PresentRows == {r \in 1..Len(NullMask) : ~NullMask[r]}

\* every present cell of the column is a number that is not NaN
NumbersOnly ==
    \A r \in PresentRows :
        Cell(ret.self, r, ret.args).t = "number" /\ ~NaNMask[r]

StringsOnly ==
    \A r \in PresentRows : Cell(ret.self, r, ret.args).t = "string"

\* C24: column type. On a table with rows and for an existing column,
\* isNumeric is true exactly when every present cell is a non-NaN number,
\* isString exactly when every present cell is a string; getColumnType is
\* 'number' for a column whose present cells are numbers, 'string' for one
\* whose present cells are strings (at least one cell present), and
\* 'mixed' for a column holding a number and a string.
C24_ColumnType ==
    (AskedOfColumn /\ Len(ret.self.data) > 0) =>
        /\ ret.op = "isNumeric" => ret.outcome.value = NumbersOnly
        /\ ret.op = "isString" => ret.outcome.value = StringsOnly
        /\ ret.op = "getColumnType" =>
              /\ (PresentRows # {} /\ NumbersOnly) => ret.outcome.value = "number"
              /\ (PresentRows # {} /\ StringsOnly) => ret.outcome.value = "string"
              /\ (~NumbersOnly /\ ~StringsOnly) => ret.outcome.value = "mixed"

\* a column read from text with the cells 'x' and 7 is reported as mixed
C24_Witness ==
    /\ ret.op = "getColumnType"
    /\ ret.args = <<"n">>
    /\ Len(ret.self.data) = 2
    /\ Cell(ret.self, 1, <<"n">>) = Str(<<"x">>)
    /\ Cell(ret.self, 2, <<"n">>) = Num(NumFin(7, 0))
    /\ ret.outcome.value = "mixed"

\* C30: getColumnType never returns 'empty'. On a zero-row table it throws
\* for every name, and on a table with rows a column whose cells are all
\* null or undefined is reported as 'mixed'.
C30_NeverEmpty ==
    ret.op = "getColumnType" =>
        /\ ret.outcome.status = "ok" => ret.outcome.value # "empty"
        /\ Len(ret.self.data) = 0 => ret.outcome.status = "error"
        /\ (HasColumn(ret.self, ret.args) /\ Len(ret.self.data) > 0
             /\ PresentRows = {})
              => ret.outcome.value = "mixed"

\* a column of two null cells has been reported as mixed
C30_Witness ==
    /\ ret.op = "getColumnType"
    /\ ret.args = <<"b">>
    /\ Len(ret.self.data) = 2
    /\ Cell(ret.self, 1, <<"b">>) = Null
    /\ Cell(ret.self, 2, <<"b">>) = Null
    /\ ret.outcome.value = "mixed"

-----------------------------------------------------------------------------
(* End of input and empty header                                           *)

\* the positions of s that hold a row terminator: LF, or CR not before LF
Terminators(s) ==
    {k \in 1..Len(s) :
        \/ s[k] = LF
        \/ s[k] = CR /\ (k = Len(s) \/ s[k + 1] # LF)}

\* the text read has no quote and its last character is a row terminator
TerminatedText ==
    /\ Parsed
    /\ \A k \in 1..Len(csv) : csv[k] # QUOTE
    /\ Len(csv) \in Terminators(csv)

\* C25: end-of-input flush. Text that ends with a row terminator produces
\* no extra trailing row: parseCSVRows returns one row per terminator, and
\* with headers on and skipEmptyLines false the table has one data row per
\* terminator after the header line.
C25_EndOfInputFlush ==
    TerminatedText =>
        /\ Len(rows) = Cardinality(Terminators(csv))
        /\ (Opt(ropts, "hasHeaders", TRUE)
             /\ ~Opt(ropts, "skipEmptyLines", TRUE)
             /\ Cardinality(Terminators(csv)) > 1)
              => Len(out.data) = Cardinality(Terminators(csv)) - 1

\* C26: empty header. When the header row is itself empty (a blank first
\* line kept because skipEmptyLines is false), fromCSV returns the table
\* with zero rows and zero columns.
C26_EmptyHeader ==
    (/\ Parsed
     /\ Opt(ropts, "hasHeaders", TRUE)
     /\ ~Opt(ropts, "skipEmptyLines", TRUE)
     /\ csv[1] \in {LF, CR}
     /\ rows[1] = <<(<<>>)>>)
        => EmptyTable(out)

-----------------------------------------------------------------------------
(* Duplicate header names                                                  *)

\* the last position of the header row that carries the name
LastIndexOf(names, name) ==
    CHOOSE j \in 1..Len(names) : names[j] = name /\ LastOfName(names, j)

\* fromCSV has returned data rows under a header row that repeats a name
RepeatedHeader ==
    /\ HasDataRows
    /\ Opt(ropts, "hasHeaders", TRUE)
    /\ ~DistinctNames(HeaderNames)

\* C27: duplicate header names. When the header row repeats a name the
\* call returns a table without error, the name is one column of it, and
\* in every data row the cell under the name is the inferred value of the
\* last field whose header carries the name.
C27_DuplicateNames ==
    RepeatedHeader =>
        /\ DistinctNames(out.columns)
        /\ NameSet(out.columns) = NameSet(HeaderNames)
        /\ \A k \in 1..Len(RawDataRows) :
              \A name \in NameSet(HeaderNames) :
                  Cell(out, k, name) =
                      InferValue(RawField(k, LastIndexOf(HeaderNames, name)))

\* under the header a,a the row x,7 has become the one cell 7
C27_Witness ==
    /\ RepeatedHeader
    /\ HeaderNames = <<(<<"a">>), <<"a">>>>
    /\ RawDataRows[1] = <<(<<"x">>), <<"7">>>>
    /\ out.columns = <<(<<"a">>)>>
    /\ Cell(out, 1, <<"a">>) = Num(NumFin(7, 0))

-----------------------------------------------------------------------------
(* Termination of the scan                                                 *)

\* one iteration of the loop has been made
Iterated == pc = "scan" /\ pc' = "scan"

\* parseCSVRows returns
Returns == pc = "scan" /\ pc' = "done"

\* C28: termination. Every iteration of the scan loop moves the index
\* forward by 1 or 2 and never past the end of the text, so the characters
\* between two successive indexes are consumed once each and at most
\* Len(csv) iterations are made; the function returns with the index at
\* the end of the text, every character consumed.
C28_Termination ==
    [][/\ Iterated => (i' \in {i + 1, i + 2} /\ i' <= Len(csv))
       /\ Returns => i = Len(csv)]_vars

\* the text of four quotes has been read to its end, its escaped quote
\* taken in one iteration of two characters
C28_Witness ==
    /\ pc = "done"
    /\ csv = <<QUOTE, QUOTE, QUOTE, QUOTE>>
    /\ i = Len(csv)
    /\ rows = <<(<<(<<QUOTE>>)>>)>>

-----------------------------------------------------------------------------
(* Cells of parsed tables                                                  *)

\* null, a finite number, or a string that is not blank and not a null
\* literal once trimmed
ParsedCell(value) ==
    \/ value = Null
    \/ value.t = "number" /\ value.n[1] = "fin"
    \/ value.t = "string" /\ Trim(value.s) \notin NullLiterals

\* C29: cell invariant of parsed tables. Every cell of a table returned by
\* fromCSV is null, a finite number (never NaN, never infinite), or a
\* string whose trimmed text is neither empty nor 'null' nor 'NULL'.
C29_ParsedCells ==
    pc = "done" =>
        \A r \in 1..Len(out.data) : \A p \in 1..Len(out.data[r]) :
            ParsedCell(out.data[r][p][2])

\* the numeral 7e999, whose value is infinite, has been kept as a string
C29_Witness ==
    /\ pc = "done"
    /\ csv = <<"h", LF, "7", "e", "9", "9", "9">>
    /\ Len(out.data) = 1
    /\ Cell(out, 1, <<"h">>) = Str(<<"7", "e", "9", "9", "9">>)

====
